---- MODULE Spec2Model ----
(***************************************************************************)
(* Model of utils/utils.py of the Unet segmentation reference:             *)
(*   get_unet_params  - the kernel/stride planning loop (lines 182-200)    *)
(*   get_tta_flips    - the test-time-augmentation flip table (149-152)    *)
(*                                                                         *)
(* Python's true division makes the working sizes floats; a halving is     *)
(* exact in binary floating point, so a size is kept as an exact fraction  *)
(* <<numerator, denominator>>.  A spacing ratio spacing / min(spacings)    *)
(* is kept as the fraction <<spacing, min>> and compared exactly.          *)
(***************************************************************************)
EXTENDS Integers, Sequences, FiniteSets, TLC

\* ---------------------------------------------------------------- bounds
MaxExp == 8          \* patch dimensions are 2^2 .. 2^MaxExp, and 12
MaxSpacing == 3      \* spacings are 1 .. MaxSpacing
MaxDim == 3          \* get_tta_flips is called with dim in 1 .. MaxDim

\* ------------------------------------------------------ program constants
SizeFloor == 8       \* "size >= 8"
RatioLimit == 2      \* "ratio <= 2"
MaxStages == 5       \* "len(strides) == 5"

VARIABLES
    patch_size,      \* config["patch_size"]
    cfg_spacings,    \* config["spacings"] as read from the config
    sizes,           \* working sizes, each a fraction <<num, den>>
    spacings,        \* working spacings
    strides,         \* list of stride vectors
    kernels,         \* list of kernel vectors
    recorded,        \* number of iterations that reached the two appends
    pc,              \* "idle" (not called), "loop", "post", "returned"
    dim,             \* argument of get_tta_flips
    flips,           \* value returned by get_tta_flips
    tta_pc           \* "idle" (not called), "call", "returned"

vars == <<patch_size, cfg_spacings, sizes, spacings, strides, kernels,
          recorded, pc, dim, flips, tta_pc>>
unet_vars == <<patch_size, cfg_spacings, sizes, spacings, strides, kernels,
               recorded, pc>>
tta_vars == <<dim, flips, tta_pc>>

\* ------------------------------------------------------------- helpers
RECURSIVE Pow2(_)
Pow2(k) == IF k = 0 THEN 1 ELSE 2 * Pow2(k - 1)

MinNat(a, b) == IF a <= b THEN a ELSE b

\* min(seq) of a non-empty sequence of numbers
MinOf(s) == CHOOSE m \in {s[i] : i \in 1..Len(s)} :
                \A i \in 1..Len(s) : m <= s[i]

\* n * [v]
Repeat(n, v) == [i \in 1..n |-> v]

\* fractions <<num, den>> with den > 0
FracLe(f, k) == f[1] <= k * f[2]
FracGe(f, k) == f[1] >= k * f[2]
FracDiv(f, j) == <<f[1], f[2] * j>>

\* sequences of length n over S
SeqsOf(S, n) == [1..n -> S]

\* ------------------------------------------------------ the input domain
AxisCounts == {2, 3}
PatchDims == {Pow2(k) : k \in 2..MaxExp} \cup {12}
SpacingVals == 1..MaxSpacing
DimVals == 1..MaxDim

\* --------------------------------------------------- get_unet_params
\* spacing_ratio = [spacing / min(spacings) for spacing in spacings]
spacing_ratio(sp) == [i \in 1..Len(sp) |-> <<sp[i], MinOf(sp)>>]

\* mutant of stride: the size test is "size >= 4"
stride_half_floor(ratio, sz) ==
    [i \in 1..MinNat(Len(ratio), Len(sz)) |->
        IF FracLe(ratio[i], RatioLimit) /\ 2 * sz[i][1] >= SizeFloor * sz[i][2]
        THEN 2 ELSE 1]

\* mutant of stride: the size test is "size > 8"
stride_strict_floor(ratio, sz) ==
    [i \in 1..MinNat(Len(ratio), Len(sz)) |->
        IF FracLe(ratio[i], RatioLimit) /\ sz[i][1] > SizeFloor * sz[i][2]
        THEN 2 ELSE 1]

\* stride = [2 if ratio <= 2 and size >= 8 else 1 for (ratio, size) in zip(..)]
stride(ratio, sz) ==
    [i \in 1..MinNat(Len(ratio), Len(sz)) |->
        IF FracLe(ratio[i], RatioLimit) /\ FracGe(sz[i], SizeFloor)
        THEN 2 ELSE 1]

\* mutant of kernel: the spacing ratio is ignored
kernel_ignores_ratio(ratio) == [i \in 1..Len(ratio) |-> 3]

\* kernel = [3 if ratio <= 2 else 1 for ratio in spacing_ratio]
kernel(ratio) ==
    [i \in 1..Len(ratio) |-> IF FracLe(ratio[i], RatioLimit) THEN 3 ELSE 1]

\* all(s == 1 for s in stride)
AllOnes(st) == \A i \in 1..Len(st) : st[i] = 1

\* sizes = [i / j for i, j in zip(sizes, stride)]
DivSizes(sz, st) ==
    [i \in 1..MinNat(Len(sz), Len(st)) |-> FracDiv(sz[i], st[i])]

\* mutant of MulSpacings: the working spacings are not scaled by the stride
MulSpacings_unscaled(sp, st) ==
    [i \in 1..MinNat(Len(sp), Len(st)) |-> sp[i]]

\* spacings = [i * j for i, j in zip(spacings, stride)]
MulSpacings(sp, st) ==
    [i \in 1..MinNat(Len(sp), Len(st)) |-> sp[i] * st[i]]

\* mutant of CapReached: the cap is tested one stage late
CapReached_late(sts) == Len(sts) = MaxStages + 1

\* if len(strides) == 5: break
CapReached(sts) == Len(sts) = MaxStages

\* mutant of InsertOnes: the all-ones vector is appended instead of prepended
InsertOnes_at_end(sts, sp) == Append(sts, Repeat(Len(sp), 1))

\* strides.insert(0, len(spacings) * [1])
InsertOnes(sts, sp) == <<Repeat(Len(sp), 1)>> \o sts

\* mutant of AppendThrees: the bottleneck kernel is not appended
AppendThrees_missing(ks, sp) == ks

\* kernels.append(len(spacings) * [3])
AppendThrees(ks, sp) == Append(ks, Repeat(Len(sp), 3))

\* strides, kernels, sizes = [], [], patch_size[:]
InitUnet ==
    /\ \E n \in AxisCounts : patch_size \in SeqsOf(PatchDims, n)
    /\ \E n \in AxisCounts : cfg_spacings \in SeqsOf(SpacingVals, n)
    /\ sizes = [i \in 1..Len(patch_size) |-> <<patch_size[i], 1>>]
    /\ spacings = cfg_spacings
    /\ strides = <<>>
    /\ kernels = <<>>
    /\ recorded = 0
    /\ pc = "loop"

\* mutant of LoopBreak: "continue" in place of "break"
LoopBreak_continue ==
    /\ pc = "loop"
    /\ AllOnes(stride(spacing_ratio(spacings), sizes))
    /\ pc' = "loop"
    /\ UNCHANGED <<patch_size, cfg_spacings, sizes, spacings, strides,
                   kernels, recorded>>
    /\ UNCHANGED tta_vars

\* one iteration that ends in the first break (all strides are 1)
LoopBreak ==
    /\ pc = "loop"
    /\ AllOnes(stride(spacing_ratio(spacings), sizes))
    /\ pc' = "post"
    /\ UNCHANGED <<patch_size, cfg_spacings, sizes, spacings, strides,
                   kernels, recorded>>
    /\ UNCHANGED tta_vars

\* one iteration that records a stage, and the cap test after it
LoopRecord ==
    /\ pc = "loop"
    /\ LET ratio == spacing_ratio(spacings)
           st == stride(ratio, sizes)
           kn == kernel(ratio)
       IN  /\ ~AllOnes(st)
           /\ sizes' = DivSizes(sizes, st)
           /\ spacings' = MulSpacings(spacings, st)
           /\ kernels' = Append(kernels, kn)
           /\ strides' = Append(strides, st)
           /\ recorded' = recorded + 1
           /\ pc' = IF CapReached(strides') THEN "post" ELSE "loop"
    /\ UNCHANGED <<patch_size, cfg_spacings>>
    /\ UNCHANGED tta_vars

\* the two statements after the loop, and the return
PostProcess ==
    /\ pc = "post"
    /\ strides' = InsertOnes(strides, spacings)
    /\ kernels' = AppendThrees(kernels, spacings)
    /\ pc' = "returned"
    /\ UNCHANGED <<patch_size, cfg_spacings, sizes, spacings, recorded>>
    /\ UNCHANGED tta_vars

\* --------------------------------------------------- get_tta_flips
\* mutant of get_tta_flips: the test is "dim == 3"
get_tta_flips_inverted(d) ==
    IF d = 3
    THEN << <<2>>, <<3>>, <<2, 3>> >>
    ELSE << <<2>>, <<3>>, <<4>>, <<2, 3>>, <<2, 4>>, <<3, 4>>, <<2, 3, 4>> >>

get_tta_flips(d) ==
    IF d = 2
    THEN << <<2>>, <<3>>, <<2, 3>> >>
    ELSE << <<2>>, <<3>>, <<4>>, <<2, 3>>, <<2, 4>>, <<3, 4>>, <<2, 3, 4>> >>

InitTta ==
    /\ dim \in DimVals
    /\ flips = <<>>
    /\ tta_pc = "call"

GetTtaFlips ==
    /\ tta_pc = "call"
    /\ flips' = get_tta_flips(dim)
    /\ tta_pc' = "returned"
    /\ UNCHANGED dim
    /\ UNCHANGED unet_vars

\* ------------------------------------------------------ specification
\* the two functions share no state; a run is one call of either
UnetIdle ==
    /\ patch_size = <<>>
    /\ cfg_spacings = <<>>
    /\ sizes = <<>>
    /\ spacings = <<>>
    /\ strides = <<>>
    /\ kernels = <<>>
    /\ recorded = 0
    /\ pc = "idle"

TtaIdle ==
    /\ dim = 0
    /\ flips = <<>>
    /\ tta_pc = "idle"

Init == (InitUnet /\ TtaIdle) \/ (InitTta /\ UnetIdle)

Next == LoopBreak \/ LoopRecord \/ PostProcess \/ GetTtaFlips

Spec == Init /\ [][Next]_vars

\* the interpreter runs a started call to its end
FairSpec == Spec /\ WF_vars(LoopBreak) /\ WF_vars(LoopRecord)
                 /\ WF_vars(PostProcess) /\ WF_vars(GetTtaFlips)

TypeOK ==
    /\ pc \in {"idle", "loop", "post", "returned"}
    /\ tta_pc \in {"idle", "call", "returned"}
    /\ recorded \in 0..MaxStages
    /\ Len(strides) \in 0..(MaxStages + 1)

\* ---------------------------------------------------------- properties

\* equal-length patch_size and spacings (entries are positive in the domain)
ValidInput == pc # "idle" /\ Len(patch_size) = Len(cfg_spacings)

NAxes == Len(patch_size)
Axes == 1..NAxes

\* the recorded downsampling stages, without the two post-processing entries
StageStrides == IF pc = "returned" THEN Tail(strides) ELSE strides
StageKernels == IF pc = "returned" THEN SubSeq(kernels, 1, Len(kernels) - 1)
                ELSE kernels
Stages == 1..Len(StageStrides)

\* product of the strides of axis a in the stages before stage s
RECURSIVE StrideProd(_, _)
StrideProd(a, s) ==
    IF s = 1 THEN 1 ELSE StageStrides[s - 1][a] * StrideProd(a, s - 1)

\* working spacing of axis a before stage s: input spacing times the product
WorkSpacing(a, s) == cfg_spacings[a] * StrideProd(a, s)
MinWorkSpacing(s) == MinOf([a \in Axes |-> WorkSpacing(a, s)])
\* working size of axis a before stage s is patch_size[a] / StrideProd(a, s)
WorkSizeGeFloor(a, s) == patch_size[a] >= SizeFloor * StrideProd(a, s)
WorkRatioLe2(a, s) == WorkSpacing(a, s) <= RatioLimit * MinWorkSpacing(s)

Isotropic == \A a \in 1..Len(cfg_spacings) : cfg_spacings[a] = cfg_spacings[1]
IsPow2(n) == \E k \in 0..(MaxExp + 1) : Pow2(k) = n
Log2(n) == CHOOSE k \in 0..(MaxExp + 1) : Pow2(k) = n
AllPow2Ge8 == \A a \in Axes : IsPow2(patch_size[a]) /\ patch_size[a] >= 8
EqualDims == \A a \in Axes : patch_size[a] = patch_size[1]
\* min(5, log2(min_dim) - 2)
ExpectedStages == MinNat(5, Log2(MinOf(patch_size)) - 2)
FullStage(s) == \A a \in Axes : StageStrides[s][a] = 2 /\ StageKernels[s][a] = 3
C1_Pre == pc = "returned" /\ ValidInput /\ Isotropic /\ AllPow2Ge8

\* C1 (as stated): isotropic spacing and power-of-two dimensions >= 8, not
\* necessarily equal, give exactly min(5, log2(min_dim) - 2) stages, every one
\* of them with stride 2 and kernel 3 on every axis.
C1_ExactStagesAnyDims ==
    C1_Pre => /\ recorded = ExpectedStages
              /\ \A s \in Stages : FullStage(s)

\* C1 (amended): under the same precondition there are at least
\* min(5, log2(min_dim) - 2) stages, exactly that many when all dimensions are
\* equal, and the first min(5, log2(min_dim) - 2) stages have stride 2 and
\* kernel 3 on every axis.
C1_StagesIsotropic ==
    C1_Pre => /\ recorded >= ExpectedStages
              /\ Len(StageStrides) = recorded
              /\ EqualDims => recorded = ExpectedStages
              /\ \A s \in 1..ExpectedStages : FullStage(s)

\* an unequal-dimension plan that goes on after the smallest axis has stopped
C1_Witness ==
    /\ C1_Pre
    /\ recorded > ExpectedStages
    /\ \A s \in 1..ExpectedStages : FullStage(s)

\* axis a starts with a spacing of more than twice the minimum spacing
Anisotropic(a) == cfg_spacings[a] > RatioLimit * MinOf(cfg_spacings)
C2_Pre == pc = "returned" /\ ValidInput /\ \E a \in Axes : Anisotropic(a)

\* C2 (as stated): an axis whose initial spacing is more than twice the
\* minimum has stride 1 and kernel 1 at every recorded stage, and the other
\* axes have stride 2 and kernel 3 at every stage they enter with a working
\* size of at least 8.
C2_AnisotropicAxisNeverDownsampled ==
    (pc = "returned" /\ ValidInput) =>
        \A a \in Axes : \A s \in Stages :
            IF Anisotropic(a)
            THEN StageStrides[s][a] = 1 /\ StageKernels[s][a] = 1
            ELSE (\E b \in Axes : Anisotropic(b)) /\ WorkSizeGeFloor(a, s)
                    => StageStrides[s][a] = 2 /\ StageKernels[s][a] = 3

\* C2 (amended): such an axis has stride 1 and kernel 1 at the first recorded
\* stage and at every later stage it enters with a working spacing still more
\* than twice the minimum working spacing; every axis (the others included)
\* has stride 2 and kernel 3 at each stage it enters with a working spacing
\* of at most twice the minimum and a working size of at least 8.
C2_AnisotropicAxisWhileCoarser ==
    C2_Pre =>
        \A a \in Axes : \A s \in Stages :
            /\ Anisotropic(a) /\ s = 1
                 => StageStrides[s][a] = 1 /\ StageKernels[s][a] = 1
            /\ Anisotropic(a) /\ ~WorkRatioLe2(a, s)
                 => StageStrides[s][a] = 1 /\ StageKernels[s][a] = 1
            /\ WorkRatioLe2(a, s) /\ WorkSizeGeFloor(a, s)
                 => StageStrides[s][a] = 2 /\ StageKernels[s][a] = 3

\* the coarse axis is left alone at first and downsampled once the other
\* axes have caught up with its spacing
C2_Witness ==
    /\ C2_Pre
    /\ \E a \in Axes :
          /\ Anisotropic(a)
          /\ recorded >= 2
          /\ StageStrides[1][a] = 1 /\ StageKernels[1][a] = 1
          /\ \E s \in Stages : StageStrides[s][a] = 2 /\ StageKernels[s][a] = 3

\* C3: for valid input the returned kernels and strides lists have the same
\* length, the number of recorded stages plus one.
C3_EqualLengths ==
    (pc = "returned" /\ ValidInput) =>
        /\ Len(kernels) = Len(strides)
        /\ Len(strides) = recorded + 1

\* a returned plan with several recorded stages
C3_Witness == pc = "returned" /\ ValidInput /\ recorded = 3

\* C4: for valid input with N axes the first returned stride vector is N ones
\* and the last returned kernel vector is N threes, also with zero stages.
C4_FirstStrideLastKernel ==
    (pc = "returned" /\ ValidInput) =>
        /\ strides[1] = Repeat(NAxes, 1)
        /\ kernels[Len(kernels)] = Repeat(NAxes, 3)

\* a returned plan without any recorded stage
C4_Witness ==
    /\ pc = "returned" /\ ValidInput /\ recorded = 0
    /\ strides = <<Repeat(NAxes, 1)>>
    /\ kernels = <<Repeat(NAxes, 3)>>

\* C5: never more than 5 recorded stages, never more than 6 entries in either
\* list, and the loop is left as soon as the fifth stage is recorded.
C5_AtMostFiveStages ==
    /\ recorded <= MaxStages
    /\ Len(strides) <= MaxStages + 1
    /\ Len(kernels) <= MaxStages + 1
    /\ recorded = MaxStages => pc # "loop"

\* the cap stopped a plan that could have gone on downsampling
C5_Witness ==
    /\ pc = "returned" /\ recorded = MaxStages
    /\ Len(strides) = MaxStages + 1
    /\ ~AllOnes(stride(spacing_ratio(spacings), sizes))

\* C6: for valid input the planning loop terminates, after at most 5
\* recording iterations.
C6_Terminates ==
    (pc = "loop" /\ ValidInput) ~> (pc = "returned" /\ recorded <= MaxStages)

\* a call that returned after the loop ran all five recording iterations
C6_Witness == pc = "returned" /\ ValidInput /\ recorded = MaxStages

\* C7: get_tta_flips(2) is [[2],[3],[2,3]] and get_tta_flips(3) is
\* [[2],[3],[4],[2,3],[2,4],[3,4],[2,3,4]], in that order.
C7_FlipTables ==
    tta_pc = "returned" =>
        /\ dim = 2 => flips = << <<2>>, <<3>>, <<2, 3>> >>
        /\ dim = 3 => /\ Len(flips) = 7
                      /\ flips[1] = <<2>> /\ flips[2] = <<3>> /\ flips[3] = <<4>>
                      /\ flips[4] = <<2, 3>> /\ flips[5] = <<2, 4>>
                      /\ flips[6] = <<3, 4>> /\ flips[7] = <<2, 3, 4>>

\* the call with dim = 3 has returned its seven subsets
C7_Witness == tta_pc = "returned" /\ dim = 3 /\ Len(flips) = 7

\* C8: a call of get_tta_flips with dim outside {2, 3} does not return a
\* flip set.
C8_RejectsBadDim ==
    (tta_pc # "idle" /\ dim \notin {2, 3}) => tta_pc # "returned"

\* C9: a call of get_unet_params with patch_size and spacings of different
\* lengths does not return a plan.
C9_RejectsLengthMismatch ==
    (pc # "idle" /\ Len(patch_size) # Len(cfg_spacings)) => pc # "returned"

\* C10: at every recorded stage the stride of an axis is 2 exactly when its
\* working spacing is at most twice the minimum working spacing and its
\* working size is at least 8, and its kernel is 3 exactly when its working
\* spacing is at most twice the minimum; working size and spacing are the
\* inputs divided / multiplied by the product of the axis's earlier strides.
C10_StageRule ==
    ValidInput =>
        \A s \in Stages : \A a \in Axes :
            /\ StageStrides[s][a] =
                 (IF WorkRatioLe2(a, s) /\ WorkSizeGeFloor(a, s) THEN 2 ELSE 1)
            /\ StageKernels[s][a] = (IF WorkRatioLe2(a, s) THEN 3 ELSE 1)

\* a plan in which all three outcomes occur: stride 2, stride 1 because of
\* the size floor (kernel 3), and stride 1 because of the spacing (kernel 1)
C10_Witness ==
    /\ pc = "returned" /\ ValidInput /\ recorded >= 3
    /\ \E s \in Stages : \E a \in Axes :
          StageStrides[s][a] = 1 /\ StageKernels[s][a] = 3
    /\ \E s \in Stages : \E a \in Axes :
          s > 1 /\ StageStrides[s][a] = 1 /\ StageKernels[s][a] = 1
    /\ \E s \in Stages : \E a \in Axes :
          s > 1 /\ StageStrides[s][a] = 2

AllDimsGeFloor == \A a \in Axes : patch_size[a] >= SizeFloor
C11_Pre == ValidInput /\ AllDimsGeFloor /\ recorded >= 1

\* C11 (as stated): for a patch size with all dimensions >= 8, no axis's
\* working size is below 8 after any recorded downsampling stage.
C11_NoSizeBelowFloor ==
    C11_Pre => \A a \in 1..Len(sizes) : FracGe(sizes[a], SizeFloor)

\* C11 (amended): for a patch size with all dimensions >= 8, no axis's working
\* size is below 4 (half the floor) after any recorded downsampling stage: an
\* axis is halved only from a working size of at least 8.
C11_NoSizeBelowHalfFloor ==
    C11_Pre => \A a \in 1..Len(sizes) : 2 * sizes[a][1] >= SizeFloor * sizes[a][2]

\* an axis of size 8 has been halved to 4 by a recorded stage
C11_Witness ==
    /\ C11_Pre
    /\ \E a \in 1..Len(sizes) :
          /\ ~FracGe(sizes[a], SizeFloor)
          /\ 2 * sizes[a][1] = SizeFloor * sizes[a][2]
====
